---- MODULE Spec2Model ----
(***************************************************************************)
(* Model of avl::avl_tree (src/avl_tree.h): the node store with owning     *)
(* child links and parent back-references, the search / insert / erase     *)
(* engine, the rebalancer (retrace and rotate functions), the iterator     *)
(* and the public operations.                                              *)
(*                                                                         *)
(* A tree value `t` is a record                                            *)
(*   node  : the heap, a function from the addresses of the live nodes to  *)
(*           their fields (_key, _val = _value.first/.second,              *)
(*           _balance_factor, _parent, _left, _right)                      *)
(*   begin : the cached _begin pointer                                     *)
(*   size  : the _size counter                                             *)
(*   fault : TRUE once a step dereferenced a null pointer or a pointer to  *)
(*           a destroyed node (the process is gone; nothing of the tree is *)
(*           observable any more)                                          *)
(*   rot   : the rotations the current call has performed so far, each     *)
(*           with the slot's old and new node and the balance factor the   *)
(*           node that became the subtree's root had before                *)
(* A reference to a unique_ptr member is a slot <<owner, "_left">> or      *)
(* <<owner, "_right">>.                                                    *)
(***************************************************************************)
EXTENDS Integers, Sequences, FiniteSets, TLC

\* ---------------------------------------------------------------- bounds
MaxKey == 3          \* keys are 1..MaxKey
MaxVal == 1          \* inserted / assigned values are 1..MaxVal
DrainKeys == 8       \* keys of the fill-then-drain scenario are 1..DrainKeys
FillKeys == 8        \* keys of the fill-then-erase runs are 1..FillKeys

Keys == 1..MaxKey
Vals == 1..MaxVal

\* ------------------------------------------------------------- addresses
nullptr == 0 - 1     \* the null pointer
sentinel == 0        \* address held by _root_sentinel
DefaultVal == 0      \* val_type() for int

VARIABLES node, _begin, _size, crashed, last, contents

vars == <<node, _begin, _size, crashed, last, contents>>

\* A freshly constructed node: balance factor 0, no children.
NewNode(k, v, parent) ==
    [_key |-> k, _val |-> v, _balance_factor |-> 0,
     _parent |-> parent, _left |-> nullptr, _right |-> nullptr]

\* The tree as the operations see it.
Tree == [node |-> node, begin |-> _begin, size |-> _size, fault |-> crashed,
         rot |-> << >>]

Fld(t, n, f) == t.node[n][f]
SetF(t, n, f, v) == [t EXCEPT !.node[n][f] = v]
Fault(t) == [t EXCEPT !.fault = TRUE]

\* unique_ptr slots
SlotGet(t, s) == t.node[s[1]][s[2]]
SlotSet(t, s, v) == [t EXCEPT !.node[s[1]][s[2]] = v]
\* std::swap of two unique_ptr members
Swap(t, a, b) ==
    LET va == SlotGet(t, a)
        vb == SlotGet(t, b)
    IN  SlotSet(SlotSet(t, a, vb), b, va)

\* root(): the real root
root(t) == Fld(t, sentinel, "_left")

\* make_unique picks a free address; the address of the node of key k is k
\* when that address is free.
Alloc(t, k) ==
    IF k \notin DOMAIN t.node THEN k
    ELSE CHOOSE n \in (1..(DrainKeys + MaxKey)) \ DOMAIN t.node :
            \A m \in (1..(DrainKeys + MaxKey)) \ DOMAIN t.node : n <= m

\* Nodes owned, directly or transitively, through the child links of n
\* (n included).  d bounds the descent.
RECURSIVE Owned(_, _, _)
Owned(t, n, d) ==
    IF n = nullptr \/ n \notin DOMAIN t.node \/ d = 0 THEN {}
    ELSE {n} \cup Owned(t, Fld(t, n, "_left"), d - 1)
             \cup Owned(t, Fld(t, n, "_right"), d - 1)

\* ~unique_ptr / reset(nullptr) on a pointer that held n: the node and,
\* by cascade, everything it owns is destroyed.
Destroy(t, n) ==
    LET dead == Owned(t, n, Cardinality(DOMAIN t.node))
    IN  [t EXCEPT !.node = [m \in (DOMAIN t.node) \ dead |-> t.node[m]]]

\* smallest_subtree_elt
RECURSIVE smallest_subtree_elt(_, _)
smallest_subtree_elt(t, n) ==
    IF Fld(t, n, "_left") = nullptr THEN n
    ELSE smallest_subtree_elt(t, Fld(t, n, "_left"))

\* get_unique_ptr: the parent's slot that points to n
get_unique_ptr(t, n) ==
    LET parent == Fld(t, n, "_parent")
    IN  IF n = Fld(t, parent, "_left") THEN <<parent, "_left">>
        ELSE <<parent, "_right">>

\* ------------------------------------------------------------- rotations
\* Statements the rotations and erase_internal are made of.
\* AdoptChild, were the assignment missing
AdoptChild_mut(t, n, side) == t

\*   n->side->_parent = n;
AdoptChild(t, n, side) == SetF(t, Fld(t, n, side), "_parent", n)

\*   if (n->side->inner) n->side->inner->_parent = n->side.get();
AdoptGrandchild(t, n, side, inner) ==
    LET c == Fld(t, n, side)
        g == Fld(t, c, inner)
    IN  IF g # nullptr THEN SetF(t, g, "_parent", c) ELSE t

\*   n->_balance_factor = a; n->side->_balance_factor = b;
SetRootAndChild(t, n, side, a, b) ==
    SetF(SetF(t, n, "_balance_factor", a), Fld(t, n, side), "_balance_factor", b)

\*   n->_left->_balance_factor = a; n->_right->_balance_factor = b;
\*   n->_balance_factor = 0;
SetChildren(t, n, a, b) ==
    SetF(SetF(SetF(t, Fld(t, n, "_left"), "_balance_factor", a),
              Fld(t, n, "_right"), "_balance_factor", b),
         n, "_balance_factor", 0)

\* The rotation `kind` has replaced node o by new_root in its slot; `before`
\* is new_root's balance factor on entry.
Rotated(t, kind, o, new_root, before) ==
    [t EXCEPT !.rot = Append(@, [kind |-> kind, old_root |-> o,
                                 new_root |-> new_root, before |-> before])]

\* Each rotation takes the slot old_root that owns the subtree's root.  The
\* new root (and for the double rotations the pivot) is dereferenced without
\* a test.
\* rotate_subtree_left, were it to test the old root's balance factor
rotate_subtree_left_mut(t, old_root) ==
    LET o == SlotGet(t, old_root)
        old_root_parent == Fld(t, o, "_parent")
        new_root == Fld(t, o, "_right")
    IN  IF new_root = nullptr THEN Fault(t)
        ELSE
        LET moved ==
              AdoptGrandchild(
                AdoptChild(
                  SetF(Swap(Swap(t, <<o, "_right">>, <<new_root, "_left">>),
                            old_root, <<new_root, "_left">>),
                       new_root, "_parent", old_root_parent),
                  new_root, "_left"),
                new_root, "_left", "_right")
        IN  Rotated(IF Fld(t, o, "_balance_factor") = 0
                    THEN SetRootAndChild(moved, new_root, "_left", 0 - 1, 1)
                    ELSE SetRootAndChild(moved, new_root, "_left", 0, 0),
                    "left", o, new_root, Fld(t, new_root, "_balance_factor"))

rotate_subtree_left(t, old_root) ==
    LET o == SlotGet(t, old_root)
        old_root_parent == Fld(t, o, "_parent")
        new_root == Fld(t, o, "_right")
    IN  IF new_root = nullptr THEN Fault(t)
        ELSE
        LET moved ==
              AdoptGrandchild(
                AdoptChild(
                  SetF(Swap(Swap(t, <<o, "_right">>, <<new_root, "_left">>),
                            old_root, <<new_root, "_left">>),
                       new_root, "_parent", old_root_parent),
                  new_root, "_left"),
                new_root, "_left", "_right")
        IN  Rotated(IF Fld(t, new_root, "_balance_factor") = 0
                    THEN SetRootAndChild(moved, new_root, "_left", 0 - 1, 1)
                    ELSE SetRootAndChild(moved, new_root, "_left", 0, 0),
                    "left", o, new_root, Fld(t, new_root, "_balance_factor"))

\* rotate_subtree_right, were it to rotate the other way
rotate_subtree_right_mut(t, old_root) == rotate_subtree_left(t, old_root)

rotate_subtree_right(t, old_root) ==
    LET o == SlotGet(t, old_root)
        old_root_parent == Fld(t, o, "_parent")
        new_root == Fld(t, o, "_left")
    IN  IF new_root = nullptr THEN Fault(t)
        ELSE
        LET moved ==
              AdoptGrandchild(
                AdoptChild(
                  SetF(Swap(Swap(t, <<o, "_left">>, <<new_root, "_right">>),
                            old_root, <<new_root, "_right">>),
                       new_root, "_parent", old_root_parent),
                  new_root, "_right"),
                new_root, "_right", "_left")
        IN  Rotated(IF Fld(t, new_root, "_balance_factor") = 0
                    THEN SetRootAndChild(moved, new_root, "_right", 1, 0 - 1)
                    ELSE SetRootAndChild(moved, new_root, "_right", 0, 0),
                    "right", o, new_root, Fld(t, new_root, "_balance_factor"))

\* First half of rotate_subtree_right_left (lines 251-256): the pivot
\* new_root is rotated above child.
RightLeftLower(t, o, child, new_root) ==
    AdoptGrandchild(
      AdoptChild(
        SetF(Swap(Swap(t, <<new_root, "_right">>, <<child, "_left">>),
                  <<o, "_right">>, <<new_root, "_right">>),
             new_root, "_parent", o),
        new_root, "_right"),
      new_root, "_right", "_left")

\* Second half (lines 258-263): the pivot is rotated above old_root.
RightLeftUpper(t, old_root, o, new_root, old_root_parent) ==
    AdoptGrandchild(
      AdoptChild(
        SetF(Swap(Swap(t, <<new_root, "_left">>, <<o, "_right">>),
                  old_root, <<new_root, "_left">>),
             new_root, "_parent", old_root_parent),
        new_root, "_left"),
      new_root, "_left", "_right")

\* rotate_subtree_right_left, were it to read the pivot's sign the other way
rotate_subtree_right_left_mut(t, old_root) ==
    LET o == SlotGet(t, old_root)
        old_root_parent == Fld(t, o, "_parent")
        child == Fld(t, o, "_right")
        new_root == IF child = nullptr THEN nullptr ELSE Fld(t, child, "_left")
    IN  IF new_root = nullptr THEN Fault(t)
        ELSE
        LET moved == RightLeftUpper(RightLeftLower(t, o, child, new_root),
                                    old_root, o, new_root, old_root_parent)
            b == Fld(t, new_root, "_balance_factor")
        IN  Rotated(IF b = 0 THEN SetChildren(moved, new_root, 0, 0)
                    ELSE IF b < 0 THEN SetChildren(moved, new_root, 0 - 1, 0)
                    ELSE SetChildren(moved, new_root, 0, 1),
                    "right_left", o, new_root, b)

rotate_subtree_right_left(t, old_root) ==
    LET o == SlotGet(t, old_root)
        old_root_parent == Fld(t, o, "_parent")
        child == Fld(t, o, "_right")
        new_root == IF child = nullptr THEN nullptr ELSE Fld(t, child, "_left")
    IN  IF new_root = nullptr THEN Fault(t)
        ELSE
        LET moved == RightLeftUpper(RightLeftLower(t, o, child, new_root),
                                    old_root, o, new_root, old_root_parent)
            b == Fld(t, new_root, "_balance_factor")
        IN  Rotated(IF b = 0 THEN SetChildren(moved, new_root, 0, 0)
                    ELSE IF b > 0 THEN SetChildren(moved, new_root, 0 - 1, 0)
                    ELSE SetChildren(moved, new_root, 0, 1),
                    "right_left", o, new_root, b)

\* First half of rotate_subtree_left_right (lines 283-288).
LeftRightLower(t, o, child, new_root) ==
    AdoptGrandchild(
      AdoptChild(
        SetF(Swap(Swap(t, <<new_root, "_left">>, <<child, "_right">>),
                  <<o, "_left">>, <<new_root, "_left">>),
             new_root, "_parent", o),
        new_root, "_left"),
      new_root, "_left", "_right")

\* Second half (lines 290-295).
LeftRightUpper(t, old_root, o, new_root, old_root_parent) ==
    AdoptGrandchild(
      AdoptChild(
        SetF(Swap(Swap(t, <<new_root, "_right">>, <<o, "_left">>),
                  old_root, <<new_root, "_right">>),
             new_root, "_parent", old_root_parent),
        new_root, "_right"),
      new_root, "_right", "_left")

rotate_subtree_left_right(t, old_root) ==
    LET o == SlotGet(t, old_root)
        old_root_parent == Fld(t, o, "_parent")
        child == Fld(t, o, "_left")
        new_root == IF child = nullptr THEN nullptr ELSE Fld(t, child, "_right")
    IN  IF new_root = nullptr THEN Fault(t)
        ELSE
        LET moved == LeftRightUpper(LeftRightLower(t, o, child, new_root),
                                    old_root, o, new_root, old_root_parent)
            b == Fld(t, new_root, "_balance_factor")
        IN  Rotated(IF b = 0 THEN SetChildren(moved, new_root, 0, 0)
                    ELSE IF b < 0 THEN SetChildren(moved, new_root, 0, 1)
                    ELSE SetChildren(moved, new_root, 0 - 1, 0),
                    "left_right", o, new_root, b)

\* ------------------------------------------------- search / insert / erase
\* std::less<Key>
_comparator(a, b) == a < b

\* Attach, were the new node stored in both child slots of insert
Attach_mut(t, insert, side, n, k, v) ==
    SetF(SetF([t EXCEPT !.node = (n :> NewNode(k, v, insert)) @@ @], insert, "_left", n),
         insert, "_right", n)

\* insert->side = make_unique<node_type>(value, insert), at address n
Attach(t, insert, side, n, k, v) ==
    SetF([t EXCEPT !.node = (n :> NewNode(k, v, insert)) @@ @], insert, side, n)

\* if (pos == _begin) _begin = to;
RebindBegin(t, pos, to) == IF pos = t.begin THEN [t EXCEPT !.begin = to] ELSE t

\* AddSize, were the counter left as it is
AddSize_mut(t, d) == t

\* ++_size / --_size
AddSize(t, d) == [t EXCEPT !.size = @ + d]

\* insert_internal: descends from `insert`; returns the tree and the node
\* found or created.
RECURSIVE insert_internal(_, _, _, _)
insert_internal(t, insert, k, v) ==
    LET ik == Fld(t, insert, "_key") IN
    IF ~_comparator(k, ik) /\ ~_comparator(ik, k)
    THEN [t |-> t, ret |-> insert]
    ELSE IF _comparator(k, ik)
    THEN IF Fld(t, insert, "_left") = nullptr
         THEN [t |-> AddSize(RebindBegin(Attach(t, insert, "_left", Alloc(t, k), k, v),
                                         insert, Alloc(t, k)), 1),
               ret |-> Alloc(t, k)]
         ELSE insert_internal(t, Fld(t, insert, "_left"), k, v)
    ELSE IF Fld(t, insert, "_right") = nullptr
         THEN [t |-> AddSize(Attach(t, insert, "_right", Alloc(t, k), k, v), 1),
               ret |-> Alloc(t, k)]
         ELSE insert_internal(t, Fld(t, insert, "_right"), k, v)

\* unique_ptr::reset(nullptr) on slot s
Reset(t, s) ==
    LET n  == SlotGet(t, s)
        t1 == SlotSet(t, s, nullptr)
    IN  IF n = nullptr THEN t1 ELSE Destroy(t1, n)

\* The lambda of erase_internal: the slot of the only child of pos, or a
\* reference to _root_sentinel itself (modelled as a slot owned by nobody).
RootSentinelSlot == <<nullptr, "_root_sentinel">>
single_child(t, pos) ==
    IF Fld(t, pos, "_left") # nullptr /\ Fld(t, pos, "_right") = nullptr
    THEN <<pos, "_left">>
    ELSE IF Fld(t, pos, "_right") # nullptr /\ Fld(t, pos, "_left") = nullptr
    THEN <<pos, "_right">>
    ELSE RootSentinelSlot

\* if (pos == _begin) _begin = parent->side.get();
RebindBeginToChild(t, pos, parent, side) ==
    IF pos = t.begin THEN [t EXCEPT !.begin = Fld(t, parent, side)] ELSE t

\* if (n->side) n->side->_parent = n;
AdoptIfAny(t, n, side) ==
    IF Fld(t, n, side) # nullptr THEN AdoptChild(t, n, side) ELSE t

\* The node/successor exchange of the two-children case (lines 162-170).
SwapWithSuccessor(t, pos, swap_node, pos_parent, swap_node_parent) ==
    AdoptChild(
      AdoptChild(
        AdoptIfAny(
          SetF(SetF(Swap(Swap(Swap(t, get_unique_ptr(t, pos), get_unique_ptr(t, swap_node)),
                              <<swap_node, "_left">>, <<pos, "_left">>),
                         <<swap_node, "_right">>, <<pos, "_right">>),
                    swap_node, "_parent", pos_parent),
               pos, "_parent", swap_node_parent),
          pos, "_right"),
        swap_node, "_left"),
      swap_node, "_right")

RECURSIVE erase_internal(_, _)
erase_internal(t, pos) ==
    IF Fld(t, pos, "_left") = nullptr /\ Fld(t, pos, "_right") = nullptr
    THEN \* leaf
         LET parent == Fld(t, pos, "_parent") IN
         IF pos = Fld(t, parent, "_left")
         THEN RebindBegin(Reset(t, <<parent, "_left">>), pos, parent)
         ELSE Reset(t, <<parent, "_right">>)
    ELSE IF single_child(t, pos) # RootSentinelSlot
    THEN \* one child
         LET child == single_child(t, pos)
             pos_parent == Fld(t, pos, "_parent")
         IN  IF pos = Fld(t, pos_parent, "_left")
             THEN Reset(RebindBeginToChild(
                          AdoptChild(Swap(t, <<pos_parent, "_left">>, child),
                                     pos_parent, "_left"),
                          pos, pos_parent, "_left"),
                        child)
             ELSE Reset(AdoptChild(Swap(t, <<pos_parent, "_right">>, child),
                                   pos_parent, "_right"),
                        child)
    ELSE \* two children
         LET swap_node == smallest_subtree_elt(t, Fld(t, pos, "_right"))
         IN  erase_internal(
               SwapWithSuccessor(t, pos, swap_node, Fld(t, pos, "_parent"),
                                 Fld(t, swap_node, "_parent")),
               pos)

\* find_internal, were it to descend to the wrong side
RECURSIVE find_internal_mut(_, _, _)
find_internal_mut(t, r, key) ==
    IF r = nullptr THEN sentinel
    ELSE IF ~_comparator(Fld(t, r, "_key"), key) /\ ~_comparator(key, Fld(t, r, "_key"))
    THEN r
    ELSE IF _comparator(key, Fld(t, r, "_key"))
    THEN find_internal_mut(t, Fld(t, r, "_right"), key)
    ELSE find_internal_mut(t, Fld(t, r, "_left"), key)

\* find_internal: the node of key `key` below r, or the sentinel
RECURSIVE find_internal(_, _, _)
find_internal(t, r, key) ==
    IF r = nullptr THEN sentinel
    ELSE IF ~_comparator(Fld(t, r, "_key"), key) /\ ~_comparator(key, Fld(t, r, "_key"))
    THEN r
    ELSE IF _comparator(key, Fld(t, r, "_key"))
    THEN find_internal(t, Fld(t, r, "_left"), key)
    ELSE find_internal(t, Fld(t, r, "_right"), key)

\* ------------------------------------------------------------ rebalancer
\* retrace_insert, were the walk to end at the first parent it updates
retrace_insert_mut(t, slot) ==
    LET n == SlotGet(t, slot) IN
    IF n = nullptr THEN Fault(t)
    ELSE
    LET parent == Fld(t, n, "_parent") IN
    IF parent = sentinel THEN t
    ELSE
    LET right_child == Fld(t, parent, "_right")
        pb == Fld(t, parent, "_balance_factor")
        nb == Fld(t, n, "_balance_factor")
    IN  IF n = right_child
        THEN IF pb > 0
             THEN IF nb >= 0
                  THEN rotate_subtree_left(t, get_unique_ptr(t, parent))
                  ELSE rotate_subtree_right_left(t, get_unique_ptr(t, parent))
             ELSE IF pb < 0
             THEN SetF(t, parent, "_balance_factor", 0)
             ELSE SetF(t, parent, "_balance_factor", pb + 1)
        ELSE IF pb < 0
             THEN IF nb <= 0
                  THEN rotate_subtree_right(t, get_unique_ptr(t, parent))
                  ELSE rotate_subtree_left_right(t, get_unique_ptr(t, parent))
             ELSE IF pb > 0
             THEN SetF(t, parent, "_balance_factor", 0)
             ELSE SetF(t, parent, "_balance_factor", pb - 1)

\* retrace_insert: `slot` is the unique_ptr reference the walk is at.
RECURSIVE retrace_insert(_, _)
retrace_insert(t, slot) ==
    LET n == SlotGet(t, slot) IN
    IF n = nullptr THEN Fault(t)
    ELSE
    LET parent == Fld(t, n, "_parent") IN
    IF parent = sentinel THEN t
    ELSE
    LET right_child == Fld(t, parent, "_right")
        pb == Fld(t, parent, "_balance_factor")
        nb == Fld(t, n, "_balance_factor")
    IN  IF n = right_child
        THEN IF pb > 0
             THEN IF nb >= 0
                  THEN rotate_subtree_left(t, get_unique_ptr(t, parent))
                  ELSE rotate_subtree_right_left(t, get_unique_ptr(t, parent))
             ELSE IF pb < 0
             THEN SetF(t, parent, "_balance_factor", 0)
             ELSE retrace_insert(SetF(t, parent, "_balance_factor", pb + 1),
                                 get_unique_ptr(t, parent))
        ELSE IF pb < 0
             THEN IF nb <= 0
                  THEN rotate_subtree_right(t, get_unique_ptr(t, parent))
                  ELSE rotate_subtree_left_right(t, get_unique_ptr(t, parent))
             ELSE IF pb > 0
             THEN SetF(t, parent, "_balance_factor", 0)
             ELSE retrace_insert(SetF(t, parent, "_balance_factor", pb - 1),
                                 get_unique_ptr(t, parent))

\* retrace_erase: called before the node in `slot` is unlinked.
RECURSIVE retrace_erase(_, _)
retrace_erase(t, slot) ==
    LET n == SlotGet(t, slot) IN
    IF n = nullptr THEN Fault(t)
    ELSE
    LET parent == Fld(t, n, "_parent") IN
    IF parent = sentinel THEN t
    ELSE
    LET left_child  == Fld(t, parent, "_left")
        right_child == Fld(t, parent, "_right")
        pb == Fld(t, parent, "_balance_factor")
    IN  IF n = left_child
        THEN IF pb > 0
             THEN IF right_child = nullptr THEN Fault(t)
                  ELSE IF Fld(t, right_child, "_balance_factor") < 0
                  THEN rotate_subtree_right_left(t, get_unique_ptr(t, parent))
                  ELSE rotate_subtree_left(t, get_unique_ptr(t, parent))
             ELSE IF pb = 0
             THEN SetF(t, parent, "_balance_factor", 1)
             ELSE retrace_erase(SetF(t, parent, "_balance_factor", 0),
                                get_unique_ptr(t, parent))
        ELSE IF pb < 0
             THEN IF left_child = nullptr THEN Fault(t)
                  ELSE IF Fld(t, left_child, "_balance_factor") > 0
                  THEN rotate_subtree_left_right(t, get_unique_ptr(t, parent))
                  ELSE rotate_subtree_right(t, get_unique_ptr(t, parent))
             ELSE IF pb = 0
             THEN SetF(t, parent, "_balance_factor", 0 - 1)
             ELSE retrace_erase(SetF(t, parent, "_balance_factor", 0),
                                get_unique_ptr(t, parent))

\* ---------------------------------------------------------------- iterator
\* The upward loop of Iterator::next; nullptr stands for a walk that left
\* the tree through a null parent.
RECURSIVE ClimbLeft(_, _, _)
ClimbLeft(t, ptr, fuel) ==
    LET p == Fld(t, ptr, "_parent") IN
    IF p = nullptr \/ fuel = 0 THEN nullptr
    ELSE IF ptr # Fld(t, p, "_left") THEN ClimbLeft(t, p, fuel - 1)
    ELSE p

\* Iterator::next
next(t, ptr) ==
    IF Fld(t, ptr, "_right") # nullptr
    THEN smallest_subtree_elt(t, Fld(t, ptr, "_right"))
    ELSE ClimbLeft(t, ptr, Cardinality(DOMAIN t.node))

\* greatest_subtree_elt calls largest_subtree_elt for the right child
\* (line 81).  No function of that name is declared anywhere: a program
\* that instantiates greatest_subtree_elt is ill-formed, and the call has no
\* result (nullptr here).
largest_subtree_elt(t, n) == nullptr

\* greatest_subtree_elt
greatest_subtree_elt(t, n) ==
    IF Fld(t, n, "_right") = nullptr THEN n
    ELSE largest_subtree_elt(t, Fld(t, n, "_right"))

\* The upward loop of Iterator::prev; nullptr stands for a walk that left
\* the tree through a null parent.
RECURSIVE ClimbRight(_, _, _)
ClimbRight(t, ptr, fuel) ==
    LET p == Fld(t, ptr, "_parent") IN
    IF p = nullptr \/ fuel = 0 THEN nullptr
    ELSE IF ptr # Fld(t, p, "_right") THEN ClimbRight(t, p, fuel - 1)
    ELSE p

\* Iterator::prev
prev(t, ptr) ==
    IF Fld(t, ptr, "_left") # nullptr
    THEN greatest_subtree_elt(t, Fld(t, ptr, "_left"))
    ELSE ClimbRight(t, ptr, Cardinality(DOMAIN t.node))

begin(t) == t.begin
end(t) == sentinel


\* --------------------------------------------------------- public operations
\* Every operation yields the tree, the returned position, the returned
\* flag, the returned value (for references: the value referred to) and the
\* exception thrown ("none" when it returns normally).
Result(t, pos, flag, val, err) ==
    [t |-> t, pos |-> pos, flag |-> flag, val |-> val, err |-> err]

\* empty()
empty(t) == root(t) = nullptr

\* size(): declared with return type bool, so _size is converted to bool
size(t) == IF t.size # 0 THEN 1 ELSE 0

\* clear()
clear(t) == [Reset(t, <<sentinel, "_left">>) EXCEPT !.size = 0]

\* The empty-tree branch shared by emplace and try_emplace
EmplaceRoot(t, k, v) ==
    Result([AddSize(Attach(t, sentinel, "_left", Alloc(t, k), k, v), 1)
               EXCEPT !.begin = Alloc(t, k)],
           Alloc(t, k), TRUE, v, "none")

\* make_pair(iterator(new_node), true) once the retrace has run
Inserted(t, new_node) ==
    Result(t, new_node, TRUE,
           IF t.fault THEN DefaultVal ELSE Fld(t, new_node, "_val"), "none")

\* retrace_insert(get_unique_ptr(new_node)) on the outcome of insert_internal
RetraceInserted(r) == Inserted(retrace_insert(r.t, get_unique_ptr(r.t, r.ret)), r.ret)

\* emplace (insert forwards to it).  The branch on _size == max_size() is
\* not reachable with fewer than 2^64 - 1 nodes and is left out.
emplace(t, k, v) ==
    IF root(t) = nullptr THEN EmplaceRoot(t, k, v)
    ELSE RetraceInserted(insert_internal(t, root(t), k, v))

insert(t, k, v) == emplace(t, k, v)

\* at_internal, were it to fall back on insertion as operator[] does
at_internal_mut(t, key) ==
    LET n == find_internal(t, root(t), key) IN
    IF n # sentinel
    THEN [t |-> t, pos |-> n, val |-> Fld(t, n, "_val"), err |-> "none"]
    ELSE [t |-> emplace(t, key, DefaultVal).t, pos |-> emplace(t, key, DefaultVal).pos,
          val |-> DefaultVal, err |-> "none"]

\* at_internal: value of the key, or the out_of_range exception
at_internal(t, key) ==
    LET n == find_internal(t, root(t), key) IN
    IF n # sentinel
    THEN [t |-> t, pos |-> n, val |-> Fld(t, n, "_val"), err |-> "none"]
    ELSE [t |-> t, pos |-> sentinel, val |-> DefaultVal, err |-> "out_of_range"]


\* find
find(t, key) == find_internal(t, root(t), key)

\* try_emplace
try_emplace(t, k, v) ==
    IF find(t, k) # end(t)
    THEN Result(t, find(t, k), TRUE, Fld(t, find(t, k), "_val"), "none")
    ELSE IF root(t) = nullptr THEN EmplaceRoot(t, k, v)
    ELSE RetraceInserted(insert_internal(t, root(t), k, v))

\* if (_size == 0) _begin = _root_sentinel.get();
ResetBeginIfEmpty(t) == IF t.size = 0 THEN [t EXCEPT !.begin = sentinel] ELSE t

\* erase after the retrace: unlink, count down, fix the cached begin
Unlink(t, pos, ret_it) ==
    IF t.fault THEN Result(t, ret_it, FALSE, DefaultVal, "none")
    ELSE Result(ResetBeginIfEmpty(AddSize(erase_internal(t, pos), 0 - 1)),
                ret_it, FALSE, DefaultVal, "none")

\* erase once ret_it (pos advanced by one) is known
EraseAt(t, pos, ret_it) ==
    IF ret_it = nullptr THEN Result(Fault(t), nullptr, FALSE, DefaultVal, "none")
    ELSE Unlink(retrace_erase(t, get_unique_ptr(t, pos)), pos, ret_it)

\* erase, were it to hand end() back instead of throwing
erase_mut(t, pos) ==
    IF pos = end(t)
    THEN Result(t, sentinel, FALSE, DefaultVal, "none")
    ELSE EraseAt(t, pos, next(t, pos))

\* erase
erase(t, pos) ==
    IF pos = end(t)
    THEN Result(t, sentinel, FALSE, DefaultVal, "out_of_range")
    ELSE EraseAt(t, pos, next(t, pos))

\* The reference operator[] returns, taken from emplace's pair
Referenced(r) == Result(r.t, r.pos, FALSE, DefaultVal, "none")

\* operator[], were it to emplace without looking the key up first
index_mut(t, key) == Referenced(emplace(t, key, DefaultVal))

\* operator[]: pos is the node whose value the returned reference denotes
index(t, key) ==
    LET n == find_internal(t, root(t), key) IN
    IF n # sentinel THEN Result(t, n, FALSE, Fld(t, n, "_val"), "none")
    ELSE Referenced(emplace(t, key, DefaultVal))

\* at
Returned(r) == Result(r.t, r.pos, FALSE, r.val, r.err)
at(t, key) == Returned(at_internal(t, key))


\* ------------------------------------------------------------ state machine
\* `last` records the most recent call: its name and arguments, what it
\* returned, the exception it threw and the rotations it performed.  `contents` is the history of the
\* calls: the keys inserted and not erased since, each with the value it was
\* given by the insertion that created it or by a later assignment.
NoCall == [op |-> "none", key |-> 0, val |-> 0, arg |-> nullptr,
           pos |-> nullptr, flag |-> FALSE, ret |-> 0, err |-> "none",
           rot |-> << >>]

\* avl_tree(): the sentinel alone, _begin at the sentinel
Init ==
    /\ node = (sentinel :> NewNode(0, 0, nullptr))
    /\ _begin = sentinel
    /\ _size = 0
    /\ crashed = FALSE
    /\ last = NoCall
    /\ contents = << >>

Call(op, k, v, arg, r) ==
    [op |-> op, key |-> k, val |-> v, arg |-> arg,
     pos |-> r.pos, flag |-> r.flag, ret |-> r.val, err |-> r.err,
     rot |-> r.t.rot]

\* The call returned r: the tree it left becomes the state, unless it died
\* on a null pointer.
Commit(call, r, newContents) ==
    IF r.t.fault
    THEN /\ crashed' = TRUE
         /\ last' = [call EXCEPT !.pos = nullptr, !.ret = 0, !.err = "null_deref",
                                 !.rot = << >>]
         /\ UNCHANGED <<node, _begin, _size, contents>>
    ELSE /\ node' = r.t.node
         /\ _begin' = r.t.begin
         /\ _size' = r.t.size
         /\ crashed' = FALSE
         /\ last' = call
         /\ contents' = newContents

Put(c, k, v) == IF k \in DOMAIN c THEN c ELSE (k :> v) @@ c
Without(c, k) == [x \in (DOMAIN c) \ {k} |-> c[x]]

\* Positions a caller can hold: the real nodes linked below the sentinel.
Positions(t) == Owned(t, root(t), Cardinality(DOMAIN t.node))

\* The call `op` with arguments k, v, arg returned r.
Do(op, k, v, arg, r, newContents) == Commit(Call(op, k, v, arg, r), r, newContents)

Insert(k, v) ==
    /\ ~crashed
    /\ Do("insert", k, v, nullptr, insert(Tree, k, v), Put(contents, k, v))

Emplace(k, v) ==
    /\ ~crashed
    /\ Do("emplace", k, v, nullptr, emplace(Tree, k, v), Put(contents, k, v))

TryEmplace(k, v) ==
    /\ ~crashed
    /\ Do("try_emplace", k, v, nullptr, try_emplace(Tree, k, v), Put(contents, k, v))

\* tree[k], read only
Index(k) ==
    /\ ~crashed
    /\ Do("index", k, 0, nullptr, index(Tree, k), Put(contents, k, DefaultVal))

\* Assignment of v through the reference r refers to
Assigned(r, v) ==
    IF r.t.fault THEN r
    ELSE [r EXCEPT !.t = SetF(r.t, r.pos, "_val", v), !.val = v]

\* tree[k] = v
IndexAssign(k, v) ==
    /\ ~crashed
    /\ Do("index_assign", k, v, nullptr, Assigned(index(Tree, k), v),
          (k :> v) @@ contents)

\* erase(pos) for a position of the tree
Erase(pos) ==
    /\ ~crashed
    /\ pos \in Positions(Tree)
    /\ Do("erase", node[pos]._key, 0, pos, erase(Tree, pos),
          Without(contents, node[pos]._key))

\* erase(end())
EraseEnd ==
    /\ ~crashed
    /\ Do("erase", 0, 0, end(Tree), erase(Tree, end(Tree)), contents)

Clear ==
    /\ ~crashed
    /\ Do("clear", 0, 0, nullptr, Result(clear(Tree), nullptr, FALSE, 0, "none"), << >>)

Find(k) ==
    /\ ~crashed
    /\ Do("find", k, 0, nullptr, Result(Tree, find(Tree, k), FALSE, 0, "none"), contents)

At(k) ==
    /\ ~crashed
    /\ Do("at", k, 0, nullptr, at(Tree, k), contents)

Next ==
    \/ \E k \in Keys, v \in Vals : Insert(k, v)
    \/ \E k \in Keys, v \in Vals : Emplace(k, v)
    \/ \E k \in Keys, v \in Vals : TryEmplace(k, v)
    \/ \E k \in Keys : Index(k)
    \/ \E k \in Keys, v \in Vals : IndexAssign(k, v)
    \/ \E pos \in DOMAIN node : Erase(pos)
    \/ EraseEnd
    \/ Clear
    \/ \E k \in Keys : Find(k)
    \/ \E k \in Keys : At(k)

Spec == Init /\ [][Next]_vars


\* -------------------------------------------------- vocabulary of the claims
\* Height of the subtree rooted at n (0 for the empty subtree).
RECURSIVE Height(_, _, _)
Height(t, n, d) ==
    IF n = nullptr \/ d = 0 THEN 0
    ELSE LET hl == Height(t, Fld(t, n, "_left"), d - 1)
             hr == Height(t, Fld(t, n, "_right"), d - 1)
         IN  1 + (IF hl > hr THEN hl ELSE hr)

Depth(t) == Cardinality(DOMAIN t.node)

\* right-minus-left height difference of n
HeightDiff(t, n) ==
    Height(t, Fld(t, n, "_right"), Depth(t)) - Height(t, Fld(t, n, "_left"), Depth(t))

\* The AVL invariant at every real node
Balanced(t) ==
    \A n \in Positions(t) :
        /\ Fld(t, n, "_balance_factor") = HeightDiff(t, n)
        /\ Fld(t, n, "_balance_factor") \in {0 - 1, 0, 1}

\* Binary search tree with unique keys
IsBST(t) ==
    \A n \in Positions(t) :
        /\ \A m \in Owned(t, Fld(t, n, "_left"), Depth(t)) :
              _comparator(Fld(t, m, "_key"), Fld(t, n, "_key"))
        /\ \A m \in Owned(t, Fld(t, n, "_right"), Depth(t)) :
              _comparator(Fld(t, n, "_key"), Fld(t, m, "_key"))

\* The positions visited by `for (it = begin(); it != end(); ++it)`; a walk
\* that does not arrive at end() within the number of live nodes, or that
\* starts at a node that is no longer alive, ends in nullptr.
RECURSIVE Walk(_, _, _)
Walk(t, p, fuel) ==
    IF p = end(t) THEN << >>
    ELSE IF p = nullptr \/ p \notin DOMAIN t.node \/ fuel = 0 THEN <<nullptr>>
    ELSE <<p>> \o Walk(t, next(t, p), fuel - 1)

Traversal(t) == Walk(t, begin(t), Depth(t))

\* The (key, value) entries held by the tree
Entries(t) == { <<Fld(t, n, "_key"), Fld(t, n, "_val")>> : n \in Positions(t) }
EntriesOf(c) == { <<k, c[k]>> : k \in DOMAIN c }

\* In-order successor of position p by keys alone: the position of the
\* least greater key, end() when there is none.
Successor(t, p) ==
    LET above == { m \in Positions(t) : Fld(t, p, "_key") < Fld(t, m, "_key") }
    IN  IF above = {} THEN end(t)
        ELSE CHOOSE m \in above : \A x \in above : Fld(t, m, "_key") <= Fld(t, x, "_key")

\* The structure of the tree: links and balance factors of every node
Structure(t) ==
    [n \in DOMAIN t.node |->
        <<Fld(t, n, "_parent"), Fld(t, n, "_left"), Fld(t, n, "_right"),
          Fld(t, n, "_balance_factor")>>]

\* ------------------------------------------------ further specifications
\* Inserts and erases only (no clear, no operator[]).
NextInsertErase ==
    \/ \E k \in Keys, v \in Vals : Insert(k, v)
    \/ \E k \in Keys, v \in Vals : Emplace(k, v)
    \/ \E k \in Keys, v \in Vals : TryEmplace(k, v)
    \/ \E pos \in DOMAIN node : Erase(pos)

SpecInsertErase == Init /\ [][NextInsertErase]_vars

\* The loops of main (src/main.cpp:14-18): distinct keys are inserted in
\* some order, then erase(begin()) is called once per inserted key.
FillInsert(k) ==
    /\ ~crashed
    /\ last.op \in {"none", "insert"}
    /\ k \notin DOMAIN contents
    /\ Do("insert", k, k, nullptr, insert(Tree, k, k), Put(contents, k, k))

\* erase(begin()); a cached begin that points to a destroyed node makes the
\* call a use of freed memory.
DrainErase ==
    /\ ~crashed
    /\ last.op \in {"insert", "erase"}
    /\ DOMAIN contents # {}
    /\ IF begin(Tree) \in DOMAIN node
       THEN Do("erase", node[begin(Tree)]._key, 0, begin(Tree),
               erase(Tree, begin(Tree)),
               IF begin(Tree) = end(Tree) THEN contents
               ELSE Without(contents, node[begin(Tree)]._key))
       ELSE Do("erase", 0, 0, begin(Tree),
               Result(Fault(Tree), nullptr, FALSE, 0, "none"), contents)

NextDrain ==
    \/ \E k \in 1..DrainKeys : FillInsert(k)
    \/ DrainErase

SpecDrain == Init /\ [][NextDrain]_vars

\* Distinct keys are inserted in some order into the empty tree, then
\* positions are erased in some order.
NextFillErase ==
    \/ \E k \in 1..FillKeys : FillInsert(k)
    \/ \E pos \in DOMAIN node : Erase(pos)

SpecFillErase == Init /\ [][NextFillErase]_vars

\* The keys of Scenario are inserted in that order into the empty tree;
\* positions may be erased afterwards.
Scenario == <<5, 8, 3, 4, 2, 1>>

ScenarioInsert ==
    /\ ~crashed
    /\ last.op \in {"none", "insert"}
    /\ Cardinality(DOMAIN contents) < Len(Scenario)
    /\ DOMAIN contents = { Scenario[i] : i \in 1..Cardinality(DOMAIN contents) }
    /\ Do("insert", Scenario[Cardinality(DOMAIN contents) + 1],
          Scenario[Cardinality(DOMAIN contents) + 1], nullptr,
          insert(Tree, Scenario[Cardinality(DOMAIN contents) + 1],
                 Scenario[Cardinality(DOMAIN contents) + 1]),
          Put(contents, Scenario[Cardinality(DOMAIN contents) + 1],
              Scenario[Cardinality(DOMAIN contents) + 1]))

NextScenario ==
    \/ ScenarioInsert
    \/ \E pos \in DOMAIN node : Erase(pos)

SpecScenario == Init /\ [][NextScenario]_vars

\* Inserts and erases, with iterators stepped forward and backward between
\* them.
\* ++it for a position other than end()
Increment(pos) ==
    /\ ~crashed
    /\ pos \in Positions(Tree)
    /\ Do("increment", 0, 0, pos,
          Result(IF next(Tree, pos) = nullptr THEN Fault(Tree) ELSE Tree,
                 next(Tree, pos), FALSE, 0, "none"), contents)

\* --it for a position other than begin(); a decrement that has no result
\* is recorded with the position nullptr.
Decrement(pos) ==
    /\ ~crashed
    /\ pos \in Positions(Tree) \cup {end(Tree)}
    /\ pos # begin(Tree)
    /\ Do("decrement", 0, 0, pos,
          Result(Tree, prev(Tree, pos), FALSE, 0,
                 IF prev(Tree, pos) = nullptr THEN "no_result" ELSE "none"), contents)

NextIterate ==
    \/ \E k \in Keys, v \in Vals : Insert(k, v)
    \/ \E pos \in DOMAIN node : Erase(pos)
    \/ \E pos \in DOMAIN node : Increment(pos)
    \/ \E pos \in DOMAIN node : Decrement(pos)

SpecIterate == Init /\ [][NextIterate]_vars


\* ------------------------------------------------------------------ claims
KeyOf(t, n) == Fld(t, n, "_key")
ValOf(t, n) == Fld(t, n, "_val")
InsertOps == {"insert", "emplace", "try_emplace"}

\* C1: after any sequence of public operations every node's stored balance
\* factor equals height(right) - height(left) and is -1, 0 or +1.
C1_BalanceInvariant == ~crashed => Balanced(Tree)

\* C2: after any sequence of inserts and erases, stepping from begin() to
\* end() arrives at end() and visits keys in strictly increasing order, and
\* the tree is a binary search tree with unique keys.
C2_InOrderIncreasing ==
    ~crashed =>
        LET w == Traversal(Tree) IN
        /\ \A i \in 1..Len(w) : w[i] # nullptr
        /\ \A i \in 1..Len(w) : \A j \in 1..Len(w) :
              i < j => _comparator(KeyOf(Tree, w[i]), KeyOf(Tree, w[j]))
        /\ IsBST(Tree)

C2_Witness ==
    /\ ~crashed
    /\ last.op = "erase"
    /\ last.err = "none"
    /\ Len(Traversal(Tree)) >= 2

\* C3: insert, emplace and try_emplace return the flag true exactly when the
\* key was absent before the call, with the position of the entry of that key.
C3_FlagIffAbsent ==
    [][(last'.op \in InsertOps /\ ~crashed') =>
          /\ last'.flag = (last'.key \notin DOMAIN contents)
          /\ last'.pos \in Positions(Tree')
          /\ KeyOf(Tree', last'.pos) = last'.key]_vars

\* C4: insert / emplace of a key that is present changes nothing: size,
\* stored value, links, balance factors and cached begin stay as they were,
\* and the position returned is that of the existing entry.
C4_DuplicateInsertNoOp ==
    [][(last'.op \in {"insert", "emplace"} /\ last'.key \in DOMAIN contents) =>
          /\ ~crashed'
          /\ node' = node
          /\ _size' = _size
          /\ _begin' = _begin
          /\ last'.pos = find(Tree, last'.key)]_vars

\* C5: erase(pos) at a valid non-end position completes, removes exactly the
\* entry at pos, keeps every other entry with its key and value, lowers the
\* element count by one and returns the in-order successor of pos in the
\* tree as it was before the call (end() for the greatest key).
C5_EraseRemovesOne ==
    [][(last'.op = "erase" /\ last'.arg # end(Tree)) =>
          /\ ~crashed'
          /\ last'.err = "none"
          /\ Positions(Tree') = Positions(Tree) \ {last'.arg}
          /\ \A n \in Positions(Tree') :
                KeyOf(Tree', n) = KeyOf(Tree, n) /\ ValOf(Tree', n) = ValOf(Tree, n)
          /\ _size' = _size - 1
          /\ last'.pos = Successor(Tree, last'.arg)]_vars

\* C6: find(k) returns the position of the entry of key k exactly when k has
\* been inserted and not erased since, and end() otherwise.
C6_FindMatchesHistory ==
    ~crashed =>
        /\ \A k \in Keys :
              LET p == find(Tree, k) IN
              IF k \in DOMAIN contents
              THEN p \in Positions(Tree) /\ KeyOf(Tree, p) = k
              ELSE p = end(Tree)
        /\ last.op = "find" => last.pos = find(Tree, last.key)

C6_Witness ==
    /\ last.op = "find"
    /\ last.pos # end(Tree)
    /\ _size >= 2
    /\ DOMAIN contents # Keys

\* C7: size() equals the number of positions between begin() and end().
C7_SizeEqualsTraversal ==
    (~crashed /\ begin(Tree) \in DOMAIN node) =>
        size(Tree) = Len(Traversal(Tree))

\* C8: after N distinct keys were inserted in any order, N calls of
\* erase(begin()) all complete and leave the tree empty.
C8_DrainEmpties ==
    (last.op = "erase") =>
        /\ ~crashed
        /\ last.err = "none"
        /\ DOMAIN contents = {} =>
              begin(Tree) = end(Tree) /\ size(Tree) = 0

\* C9: operator[] on an absent key completes, adds exactly the entry
\* (k, default), keeps the other entries and refers to the new value, so a
\* value assigned through it is the one find(k) shows; on a present key it
\* refers to the existing value and changes nothing in the tree.
C9_IndexAccess ==
    [][(last'.op \in {"index", "index_assign"}) =>
          /\ ~crashed'
          /\ last'.pos = find(Tree', last'.key)
          /\ last'.pos # end(Tree')
          /\ IF last'.key \notin DOMAIN contents
             THEN /\ Positions(Tree') = Positions(Tree) \cup {last'.pos}
                  /\ last'.pos \notin Positions(Tree)
                  /\ _size' = _size + 1
                  /\ \A n \in Positions(Tree) :
                        KeyOf(Tree', n) = KeyOf(Tree, n) /\ ValOf(Tree', n) = ValOf(Tree, n)
                  /\ last'.op = "index" => ValOf(Tree', last'.pos) = DefaultVal
             ELSE /\ Structure(Tree') = Structure(Tree)
                  /\ _size' = _size
                  /\ _begin' = _begin
                  /\ \A n \in Positions(Tree) \ {last'.pos} :
                        KeyOf(Tree', n) = KeyOf(Tree, n) /\ ValOf(Tree', n) = ValOf(Tree, n)
                  /\ last'.op = "index" =>
                        node' = node /\ last'.ret = ValOf(Tree, last'.pos)
          /\ last'.op = "index_assign" =>
                ValOf(Tree', find(Tree', last'.key)) = last'.val]_vars

C9_Witness ==
    /\ ~crashed
    /\ last.op = "index"
    /\ last.ret = DefaultVal
    /\ last.pos = find(Tree, last.key)
    /\ _size >= 2

\* C10: at(key) on an absent key throws and leaves size, structure, balance
\* factors and cached begin unchanged; on a present key it returns the
\* stored value of that key.
C10_AtChecked ==
    [][(last'.op = "at") =>
          /\ ~crashed'
          /\ node' = node /\ _size' = _size /\ _begin' = _begin
          /\ IF last'.key \in DOMAIN contents
             THEN last'.err = "none" /\ last'.ret = contents[last'.key]
             ELSE last'.err = "out_of_range"]_vars

C10_Witness ==
    /\ last.op = "at"
    /\ last.err = "out_of_range"
    /\ _size >= 2

\* C11: erase(end()) throws and is not performed: nodes, links, balance
\* factors, size and cached begin are as before the call, in every reachable
\* state, the empty tree included.
C11_EraseEndRejected ==
    [][(last'.op = "erase" /\ last'.arg = end(Tree)) =>
          /\ ~crashed'
          /\ last'.err = "out_of_range"
          /\ node' = node
          /\ _size' = _size
          /\ _begin' = _begin]_vars

C11_Witness ==
    /\ last.op = "erase"
    /\ last.arg = end(Tree)
    /\ last.err = "out_of_range"
    /\ _size >= 2

\* C12: clear() in any reachable state destroys every real node, sets the
\* size counter to zero and the cached leftmost pointer to the sentinel, so
\* that begin() = end() right afterwards.
C12_ClearEmpties ==
    [][(last'.op = "clear") =>
          /\ ~crashed'
          /\ DOMAIN node' = {sentinel}
          /\ root(Tree') = nullptr
          /\ _size' = 0
          /\ _begin' = sentinel
          /\ begin(Tree') = end(Tree')]_vars

\* C13: after every completed public operation the cached leftmost pointer
\* refers to the node with the smallest key, or to the sentinel when the
\* tree is empty.
C13_BeginIsLeftmost ==
    ~crashed =>
        IF Positions(Tree) = {}
        THEN _begin = sentinel
        ELSE /\ _begin \in Positions(Tree)
             /\ \A n \in Positions(Tree) :
                   ~_comparator(KeyOf(Tree, n), KeyOf(Tree, _begin))

\* The keys met from begin() to end()
TraversalKeys(t) == [i \in 1..Len(Traversal(t)) |-> KeyOf(t, Traversal(t)[i])]

ScenarioDone ==
    /\ ~crashed
    /\ last.op = "insert"
    /\ Cardinality(DOMAIN contents) = Len(Scenario)

\* C14 as stated: inserting 5, 8, 3, 4, 2, 1 into an empty tree gives the
\* in-order sequence 1, 2, 3, 4, 5, 8 and a real root with key 4.
C14_ScenarioRootFour ==
    ScenarioDone =>
        /\ TraversalKeys(Tree) = <<1, 2, 3, 4, 5, 8>>
        /\ KeyOf(Tree, root(Tree)) = 4

\* C14 amended: inserting 5, 8, 3, 4, 2, 1 into an empty tree gives the
\* in-order sequence 1, 2, 3, 4, 5, 8 and a real root with key 3.
C14_ScenarioRootThree ==
    ScenarioDone =>
        /\ TraversalKeys(Tree) = <<1, 2, 3, 4, 5, 8>>
        /\ KeyOf(Tree, root(Tree)) = 3
        /\ Balanced(Tree)

C14_Witness ==
    /\ ScenarioDone
    /\ last.key = 1
    /\ Fld(Tree, root(Tree), "_parent") = sentinel

\* A tree that satisfies the AVL invariant: a binary search tree whose
\* stored balance factors are the height differences and lie in -1..1, with
\* the leftmost node cached.
AvlTree(t) ==
    /\ ~t.fault
    /\ IsBST(t)
    /\ Balanced(t)
    /\ t.begin = smallest_subtree_elt(t, sentinel)

Children(t, n) == {Fld(t, n, "_left"), Fld(t, n, "_right")} \ {nullptr}

\* C15: erasing a node with two children from a tree that satisfies the AVL
\* invariant completes, leaves the in-order sequence without the erased key
\* and a tree in which every stored balance factor is the node's height
\* difference and lies in -1..1.
C15_EraseTwoChildren ==
    [][(/\ last'.op = "erase"
        /\ AvlTree(Tree)
        /\ last'.arg \in Positions(Tree)
        /\ Cardinality(Children(Tree, last'.arg)) = 2) =>
          /\ ~crashed'
          /\ TraversalKeys(Tree') =
                SelectSeq(TraversalKeys(Tree), LAMBDA k : k # last'.key)
          /\ Balanced(Tree')]_vars

\* C16: erasing a node with at most one child from a tree that satisfies the
\* AVL invariant completes and leaves every node, up to the real root, with
\* a stored balance factor equal to its height difference: after a rotation
\* that made the subtree shorter the walk goes on above it.
C16_EraseRetraceComplete ==
    [][(/\ last'.op = "erase"
        /\ AvlTree(Tree)
        /\ last'.arg \in Positions(Tree)
        /\ Cardinality(Children(Tree, last'.arg)) <= 1) =>
          /\ ~crashed'
          /\ Balanced(Tree')]_vars

\* The proper ancestors of n among the real nodes
RECURSIVE Ancestors(_, _, _)
Ancestors(t, n, fuel) ==
    IF fuel = 0 \/ Fld(t, n, "_parent") \in {sentinel, nullptr} THEN {}
    ELSE {Fld(t, n, "_parent")} \cup Ancestors(t, Fld(t, n, "_parent"), fuel - 1)

\* C17: inserting an absent key into a tree that satisfies the AVL invariant
\* completes with at most one rotation, leaves the nodes above a rotated
\* subtree as they were (the walk ends with the rotation), and yields a tree
\* that satisfies the AVL invariant again.
C17_InsertOneRotation ==
    [][(/\ last'.op \in InsertOps
        /\ AvlTree(Tree)
        /\ last'.key \notin DOMAIN contents) =>
          /\ ~crashed'
          /\ Len(last'.rot) <= 1
          /\ \A i \in 1..Len(last'.rot) :
                \A a \in Ancestors(Tree', last'.rot[i].new_root, Depth(Tree')) :
                   Fld(Tree', a, "_balance_factor") = Fld(Tree, a, "_balance_factor")
          /\ AvlTree(Tree')]_vars

\* The node just inserted has two children and is not the root: the
\* insertion ended in a double rotation below the root that made the new
\* node the root of the rotated subtree.
C17_Witness ==
    /\ ~crashed
    /\ last.op = "insert"
    /\ last.flag
    /\ last.pos \in Positions(Tree)
    /\ last.pos # root(Tree)
    /\ Cardinality(Children(Tree, last.pos)) = 2
    /\ AvlTree(Tree)

BalanceFactor(t, n) == Fld(t, n, "_balance_factor")

\* The single (double) rotations of a completed call
SingleRotations(call) ==
    { i \in 1..Len(call.rot) : call.rot[i].kind \in {"left", "right"} }
DoubleRotations(call) ==
    { i \in 1..Len(call.rot) : call.rot[i].kind \in {"right_left", "left_right"} }

\* C18 as stated: a single rotation leaves the old and the new subtree root
\* both with balance factor 0 when the heavy child (the new root) had
\* balance factor 0 before, and with a +1/-1 pattern otherwise.
C18_SingleRotationZeroWhenBalanced ==
    [][~crashed' =>
          \A i \in SingleRotations(last') :
             IF last'.rot[i].before = 0
             THEN /\ BalanceFactor(Tree', last'.rot[i].new_root) = 0
                  /\ BalanceFactor(Tree', last'.rot[i].old_root) = 0
             ELSE /\ BalanceFactor(Tree', last'.rot[i].new_root) # 0
                  /\ BalanceFactor(Tree', last'.rot[i].old_root) # 0]_vars

\* C18 amended: a single rotation leaves the old and the new subtree root
\* both with balance factor 0 when the heavy child had a balance factor
\* other than 0 before; when the heavy child was balanced, a left rotation
\* leaves the new root at -1 and the old root at +1, a right rotation the
\* new root at +1 and the old root at -1.
C18_SingleRotationFactors ==
    [][~crashed' =>
          \A i \in SingleRotations(last') :
             IF last'.rot[i].before # 0
             THEN /\ BalanceFactor(Tree', last'.rot[i].new_root) = 0
                  /\ BalanceFactor(Tree', last'.rot[i].old_root) = 0
             ELSE IF last'.rot[i].kind = "left"
             THEN /\ BalanceFactor(Tree', last'.rot[i].new_root) = 0 - 1
                  /\ BalanceFactor(Tree', last'.rot[i].old_root) = 1
             ELSE /\ BalanceFactor(Tree', last'.rot[i].new_root) = 1
                  /\ BalanceFactor(Tree', last'.rot[i].old_root) = 0 - 1]_vars

\* An erase has rotated left around a heavy child that was balanced
C18_Witness ==
    /\ ~crashed
    /\ last.op = "erase"
    /\ \E i \in SingleRotations(last) :
          /\ last.rot[i].kind = "left"
          /\ last.rot[i].before = 0
          /\ Fld(Tree, last.rot[i].old_root, "_parent") = last.rot[i].new_root

\* What C19 says of the double rotation r, seen in the tree t the call left;
\* parentBefore is the parent the rotated node had.
DoubleRotationFactors(t, r, parentBefore) ==
    LET pivot == r.new_root
        l == Fld(t, pivot, "_left")
        rt == Fld(t, pivot, "_right")
    IN  /\ Fld(t, pivot, "_parent") = parentBefore
        /\ r.old_root \in {l, rt}
        /\ l # nullptr /\ rt # nullptr
        /\ BalanceFactor(t, pivot) = 0
        /\ r.before = 0 => BalanceFactor(t, l) = 0 /\ BalanceFactor(t, rt) = 0
        /\ r.before > 0 => BalanceFactor(t, l) = 0 - 1 /\ BalanceFactor(t, rt) = 0
        /\ r.before < 0 => BalanceFactor(t, l) = 0 /\ BalanceFactor(t, rt) = 1
        /\ \A n \in {pivot, l, rt} : BalanceFactor(t, n) = HeightDiff(t, n)

SubtreeHeight(t, n) == Height(t, n, Depth(t))
Larger(a, b) == IF a > b THEN a ELSE b

\* The double rotation r was applied to a node two levels out of balance
\* whose heavy child leaned inward.  t is the tree the call left: with o the
\* rotated node, c its heavy child and p the pivot, the subtrees that were
\* p's before the rotation are now the inner subtrees of o and c.
AtTwoInward(t, r) ==
    LET o == r.old_root
        p == r.new_root
        outer == IF r.kind = "right_left" THEN "_right" ELSE "_left"
        inner == IF r.kind = "right_left" THEN "_left" ELSE "_right"
        c == Fld(t, p, outer)
        hp == 1 + Larger(SubtreeHeight(t, Fld(t, o, outer)),
                         SubtreeHeight(t, Fld(t, c, inner)))
    IN  /\ Fld(t, p, inner) = o
        /\ c # nullptr
        /\ hp > SubtreeHeight(t, Fld(t, c, outer))
        /\ (1 + hp) - SubtreeHeight(t, Fld(t, o, inner)) = 2

C20_ParentsConsistent ==
    ~crashed =>
        /\ \A n \in Positions(Tree) \cup {sentinel} :
              \A c \in Children(Tree, n) :
                 c \in DOMAIN node /\ Fld(Tree, c, "_parent") = n
        /\ root(Tree) # nullptr => Fld(Tree, root(Tree), "_parent") = sentinel

\* An insertion has rotated at the real root
C20_Witness ==
    /\ ~crashed
    /\ last.op \in InsertOps
    /\ Len(last.rot) = 1
    /\ last.rot[1].new_root = root(Tree)
    /\ Fld(Tree, last.rot[1].old_root, "_parent") = root(Tree)

\* The owning slots of t
Slots(t) == (DOMAIN t.node) \X {"_left", "_right"}

\* No node is held by two distinct owning slots
NoSharedOwner(t) ==
    LET heap == t.node
        full == { s \in (DOMAIN heap) \X {"_left", "_right"} : heap[s[1]][s[2]] # nullptr }
    IN  Cardinality({ heap[s[1]][s[2]] : s \in full }) = Cardinality(full)

\* The tree after the first k of the std::swap calls in `swaps`
RECURSIVE AfterSwaps(_, _, _)
AfterSwaps(t, swaps, k) ==
    IF k = 0 THEN t
    ELSE Swap(AfterSwaps(t, swaps, k - 1), swaps[k][1], swaps[k][2])

\* The std::swap calls of the rotation r, in the order of the code; t is
\* the tree the rotation is applied to.
RotationSwaps(t, r) ==
    LET o == r.old_root
        n == r.new_root
    IN  IF r.kind = "left"
        THEN << << <<o, "_right">>, <<n, "_left">> >>,
                << get_unique_ptr(t, o), <<n, "_left">> >> >>
        ELSE IF r.kind = "right"
        THEN << << <<o, "_left">>, <<n, "_right">> >>,
                << get_unique_ptr(t, o), <<n, "_right">> >> >>
        ELSE IF r.kind = "right_left"
        THEN << << <<n, "_right">>, <<Fld(t, o, "_right"), "_left">> >>,
                << <<o, "_right">>, <<n, "_right">> >>,
                << <<n, "_left">>, <<o, "_right">> >>,
                << get_unique_ptr(t, o), <<n, "_left">> >> >>
        ELSE << << <<n, "_left">>, <<Fld(t, o, "_left"), "_right">> >>,
                << <<o, "_left">>, <<n, "_left">> >>,
                << <<n, "_right">>, <<o, "_left">> >>,
                << get_unique_ptr(t, o), <<n, "_right">> >> >>

\* The std::swap calls of the two-children case of erase_internal
SuccessorSwaps(t, pos) ==
    LET swap_node == smallest_subtree_elt(t, Fld(t, pos, "_right"))
    IN  << << get_unique_ptr(t, pos), get_unique_ptr(t, swap_node) >>,
           << <<swap_node, "_left">>, <<pos, "_left">> >>,
           << <<swap_node, "_right">>, <<pos, "_right">> >> >>

\* The links a call's rotation finds: those of the tree before an erase, and
\* those left by insert_internal for an insertion.
LinksAtRotation(t, call) ==
    IF call.op = "erase" \/ root(t) = nullptr THEN t
    ELSE insert_internal(t, root(t), call.key, call.val).t

\* The tree erase hands to erase_internal
TreeAtUnlink(t, pos) == retrace_erase(t, get_unique_ptr(t, pos))

\* C21: between the swaps of a rotation and of the two-children erase no
\* node is held by two owning slots; after every completed operation no node
\* is held by two owning slots, every live real node is reached from the
\* sentinel through owning links, and the only nodes destroyed are the one
\* erased or those cleared.
C21_SingleOwnership ==
    [][~crashed' =>
          /\ \A i \in 1..Len(last'.rot) :
                \A k \in 1..Len(RotationSwaps(LinksAtRotation(Tree, last'), last'.rot[i])) :
                   NoSharedOwner(AfterSwaps(LinksAtRotation(Tree, last'),
                                            RotationSwaps(LinksAtRotation(Tree, last'),
                                                          last'.rot[i]), k))
          /\ (/\ last'.op = "erase"
              /\ last'.arg \in Positions(Tree)
              /\ Cardinality(Children(Tree, last'.arg)) = 2) =>
                \A k \in 1..3 :
                   NoSharedOwner(AfterSwaps(TreeAtUnlink(Tree, last'.arg),
                                            SuccessorSwaps(TreeAtUnlink(Tree, last'.arg),
                                                           last'.arg), k))
          /\ NoSharedOwner(Tree')
          /\ Positions(Tree') = DOMAIN node' \ {sentinel}
          /\ \A n \in Positions(Tree') :
                \E s \in Slots(Tree') : SlotGet(Tree', s) = n
          /\ IF last'.op = "clear" THEN DOMAIN node' = {sentinel}
             ELSE IF last'.op = "erase" /\ last'.err = "none"
             THEN DOMAIN node' = DOMAIN node \ {last'.arg}
             ELSE DOMAIN node \subseteq DOMAIN node']_vars

\* An erase whose walk rotated has completed and destroyed its node
C21_Witness ==
    /\ ~crashed
    /\ last.op = "erase"
    /\ last.err = "none"
    /\ Len(last.rot) = 1
    /\ last.arg \notin DOMAIN node
    /\ NoSharedOwner(Tree)
    /\ _size >= 2

\* C22: after every completed public operation the _size counter is the
\* number of real nodes reached from the real root; it grows by one exactly
\* when a node is attached, a duplicate-key insert leaves it, an erase
\* lowers it by one and clear sets it to zero.
C22_SizeCountsNodes ==
    [][~crashed' =>
          /\ _size' = Cardinality(Positions(Tree'))
          /\ last'.op \in InsertOps \cup {"index", "index_assign"} =>
                IF find(Tree, last'.key) = end(Tree)
                THEN _size' = _size + 1 /\ DOMAIN node' # DOMAIN node
                ELSE _size' = _size /\ DOMAIN node' = DOMAIN node
          /\ (last'.op = "erase" /\ last'.err = "none") => _size' = _size - 1
          /\ last'.op = "clear" => _size' = 0
          /\ last'.op \in {"find", "at"} => _size' = _size]_vars

\* An erase has completed and left entries behind
C22_Witness ==
    /\ ~crashed
    /\ last.op = "erase"
    /\ last.err = "none"
    /\ _size >= 2
    /\ _size = Cardinality(Positions(Tree))

\* The position of the greatest key
Greatest(t) ==
    CHOOSE m \in Positions(t) : \A x \in Positions(t) : ~_comparator(KeyOf(t, m), KeyOf(t, x))

\* C23: in every reachable non-empty tree, decrementing end() yields the
\* position of the greatest key, decrementing the successor of a position p
\* yields p, and incrementing the predecessor of a position q other than
\* begin() yields q.
C23_PrevMirrorsNext ==
    (AvlTree(Tree) /\ Positions(Tree) # {}) =>
        /\ prev(Tree, end(Tree)) = Greatest(Tree)
        /\ \A p \in Positions(Tree) : prev(Tree, next(Tree, p)) = p
        /\ \A q \in (Positions(Tree) \cup {end(Tree)}) \ {begin(Tree)} :
              /\ prev(Tree, q) \in Positions(Tree)
              /\ next(Tree, prev(Tree, q)) = q

\* C24: no sequence of public operations with valid arguments reaches a
\* step that dereferences a null child or parent link: no call dies in a
\* retrace or rotation.
C24_NoNullDereference == ~crashed

====
